---------------------------- MODULE Spec2Model ----------------------------
(***************************************************************************)
(* Model of the Tauri backend of 40Hz-Harmonic-AI:                          *)
(*   - gui/src-tauri/src/main.rs: the preflight probes, run_diagnostics,    *)
(*     the gate (preflight_passed) and the backend commands;                *)
(*   - gui/src-tauri/src/window_manager.rs: the office window registry.     *)
(* Each command of the program is a task running on a multi-threaded async  *)
(* runtime, so commands of different tasks interleave at every point where  *)
(* the code holds no lock.                                                  *)
(***************************************************************************)
EXTENDS Integers, Sequences, FiniteSets, TLC

\* ------------------------------------------------------------------ bounds

\* Tasks that may call run_diagnostics concurrently.
NumTasks == 2
\* Reports built in one behaviour (values of the logical timestamp).
MaxRuns == 2

\* Tasks that may run window commands concurrently.
NumCallers == 2
\* Values Uuid::new_v4 yields in one behaviour.
MaxUuids == 2
\* Steps of a workflow definition.
MaxSteps == 3

Tasks == 1..NumTasks
Callers == 1..NumCallers
UuidSpace == 1..MaxUuids

\* ------------------------------------------------------- program constants

\* check_ram(2.0): the minimum of free memory, in GB.
MinFreeRamGb == 2
\* shared_memory_ttl.unwrap_or(3600): the default TTL, in seconds.
DefaultTtl == 3600

\* Option<T>: None is the empty sequence, Some(x) the one-element sequence.
None == <<>>
Some(x) == <<x>>
IsSome(o) == Len(o) = 1
Unwrap(o) == o[1]

\* Result<T, String>.
Ok(v) == [ok |-> TRUE, val |-> v]
Err(msg) == [ok |-> FALSE, val |-> msg]

\* ------------------------------------------------------------------ state

VARIABLES
    preflight_passed,   \* AppState.preflight_passed: Mutex<bool>
    diagnostics,        \* AppState.diagnostics: Mutex<Option<DiagnosticsResult>>
    rd_pc,              \* position of each task inside run_diagnostics
    rd_result,          \* run_diagnostics' local `result` of each task
    join_slots,         \* tokio::join!: the probe outputs that are ready (task 1)
    join_order,         \* the probes of that join and their outputs, in the
                        \* order in which the futures completed
    clock,              \* SystemTime::now(), as a logical time
    windows,            \* WindowManager.windows: HashMap<String, OfficeWindow>
    tk_windows,         \* labels of the windows the toolkit (app_handle) holds
    uuid_drawn,         \* values Uuid::new_v4 has yielded
    issued,             \* identifiers create_office_window has returned
    w_pc,               \* position of each caller inside its window command
    w_local,            \* the locals of that command: create_office_window's
                        \* arguments and `office_window`, a send's iterator
    rw_readers,         \* callers holding a read guard of WindowManager.windows
    wf,                 \* orchestrate_workflow: the run of each caller
    event               \* the handler step just taken: op, arguments, what it
                        \* returned, the outbound calls it made

diag_vars ==
    <<preflight_passed, diagnostics, rd_pc, rd_result, join_slots, join_order, clock>>
win_vars == <<windows, tk_windows, uuid_drawn, issued, w_pc, w_local, rw_readers, wf>>
vars == <<preflight_passed, diagnostics, rd_pc, rd_result, join_slots, join_order, clock,
          windows, tk_windows, uuid_drawn, issued, w_pc, w_local, rw_readers, wf,
          event>>

\* ------------------------------------------------------------- the probes

ProbeNames == {"ram", "disk", "ollama", "models", "backend"}

CheckResult(p, m, s) == [passed |-> p, message |-> m, severity |-> s]

\* What a probe can observe of its environment.
RamObs == {1, 2, 3}                \* available memory, GB
DiskObs == {"any"}                  \* check_disk looks at nothing
HttpObs == {"success", "http_error", "unreachable"}

\* Names an Ollama server may list, and the required names each contains
\* (str::contains is a substring test).
ModelNames == {"deepseek-r1:14b", "qwen2.5-coder:7b-instruct", "llama3:8b"}
RequiredModels == <<"deepseek-r1:14b", "qwen2.5-coder:7b">>
Contains(m, required) ==
    \/ m = required
    \/ m = "qwen2.5-coder:7b-instruct" /\ required = "qwen2.5-coder:7b"

\* A response to GET /api/tags as check_models reads it: the HTTP outcome,
\* whether the body parses as JSON, the names under "models".
ModelsObs ==
    {[http |-> h, json_ok |-> FALSE, names |-> {}] : h \in HttpObs}
    \cup {[http |-> "success", json_ok |-> TRUE, names |-> n] : n \in SUBSET ModelNames}

\* Mutant: the severity of the RAM check is info whether it passed or not.
check_ram_AlwaysInfo(available_gb, min_free_gb) ==
    CheckResult(available_gb >= min_free_gb, "Available RAM", "info")

check_ram(available_gb, min_free_gb) ==
    CheckResult(available_gb >= min_free_gb,
                "Available RAM",
                IF available_gb >= min_free_gb THEN "info" ELSE "error")

check_disk(obs) ==
    CheckResult(TRUE, "Disk space check passed", "info")

check_ollama(http) ==
    IF http = "success"
    THEN CheckResult(TRUE, "Ollama service is running", "info")
    ELSE CheckResult(FALSE, "Ollama service not reachable", "error")

MissingModels(names) ==
    SelectSeq(RequiredModels, LAMBDA r : ~ \E m \in names : Contains(m, r))

MissingMessage(missing) ==
    IF Len(missing) = 2 THEN "Missing models: both"
    ELSE IF missing[1] = "deepseek-r1:14b" THEN "Missing models: deepseek-r1:14b"
    ELSE "Missing models: qwen2.5-coder:7b"

check_models(obs) ==
    IF obs.http = "success"
    THEN IF obs.json_ok
         THEN IF MissingModels(obs.names) = <<>>
              THEN CheckResult(TRUE, "All required models present", "info")
              ELSE CheckResult(FALSE, MissingMessage(MissingModels(obs.names)), "error")
         ELSE CheckResult(FALSE, "Failed to parse Ollama models list", "error")
    ELSE CheckResult(FALSE, "Cannot check models - Ollama not running", "error")

check_backend_services(http) ==
    IF http = "success"
    THEN CheckResult(TRUE, "Backend services are running", "info")
    ELSE CheckResult(FALSE, "Backend services not reachable", "warning")

\* The observations of one sweep, one per probe.
Observations ==
    [ram : RamObs, disk : DiskObs, ollama : HttpObs, models : ModelsObs, backend : HttpObs]

ObsOf(p) ==
    CASE p = "ram" -> RamObs
      [] p = "disk" -> DiskObs
      [] p = "ollama" -> HttpObs
      [] p = "models" -> ModelsObs
      [] p = "backend" -> HttpObs

RunProbe(p, obs) ==
    CASE p = "ram" -> check_ram(obs, MinFreeRamGb)
      [] p = "disk" -> check_disk(obs)
      [] p = "ollama" -> check_ollama(obs)
      [] p = "models" -> check_models(obs)
      [] p = "backend" -> check_backend_services(obs)

\* The requests a sweep sends: two to Ollama, one to the backend's /health.
ProbeRequests == {"ollama:/api/tags", "backend:/health"}

\* ------------------------------------------------- run_diagnostics' status

all_passed(checks) == \A k \in DOMAIN checks : checks[k].passed
\* Mutant: any failed check counts as an error.
has_errors_any_failed(checks) == \E k \in DOMAIN checks : ~checks[k].passed
has_errors(checks) == \E k \in DOMAIN checks : checks[k].severity = "error"

OverallStatus(checks) ==
    IF all_passed(checks) THEN "OK"
    ELSE IF has_errors(checks) THEN "ERROR"
    ELSE "WARNING"

DiagnosticsResult(checks, now) ==
    [status |-> OverallStatus(checks), checks |-> checks, timestamp |-> now]

\* ------------------------------------------------------ handler results

\* What a handler step leaves for the presentation layer: res is None while
\* the handler has not returned; requests are the outbound calls of the step
\* (HTTP requests, toolkit calls), emits the Window::emit calls of the step.
Event(op, res, requests) ==
    [op |-> op, arg |-> None, res |-> res, requests |-> requests, emits |-> <<>>]
\* The same for a command called with arguments.
EventOf(op, arg, res, requests) ==
    [op |-> op, arg |-> Some(arg), res |-> res, requests |-> requests, emits |-> <<>>]
\* The same for a step that called Window::emit.
EmitEvent(op, arg, res, emits) ==
    [op |-> op, arg |-> Some(arg), res |-> res, requests |-> {}, emits |-> emits]

\* A reply of the remote backend to one request.
BackendReplies == {"success", "success_malformed", "http_error", "unreachable"}

\* Environments the overlapping runs of run_diagnostics observe: all healthy,
\* the backend down, Ollama down.
Healthy ==
    [ram |-> 3, disk |-> "any", ollama |-> "success",
     models |-> [http |-> "success", json_ok |-> TRUE,
                 names |-> {"deepseek-r1:14b", "qwen2.5-coder:7b-instruct"}],
     backend |-> "success"]
BackendDown == [Healthy EXCEPT !.backend = "unreachable"]
OllamaDown ==
    [Healthy EXCEPT !.ollama = "unreachable",
                    !.models = [http |-> "unreachable", json_ok |-> FALSE, names |-> {}]]
Environments == {Healthy, BackendDown, OllamaDown}

NoSlots == [p \in {} |-> CheckResult(TRUE, "", "info")]

\* --------------------------------------------------------- run_diagnostics

\* Lines 250-286 in one step: the five probes joined, the report built.
RunProbes(t, obs) ==
    /\ rd_pc[t] = "idle"
    /\ clock < MaxRuns
    /\ clock' = clock + 1
    /\ rd_result' = [rd_result EXCEPT ![t] =
            Some(DiagnosticsResult([p \in ProbeNames |-> RunProbe(p, obs[p])], clock + 1))]
    /\ rd_pc' = [rd_pc EXCEPT ![t] = "store_gate"]
    /\ event' = Event("run_diagnostics", None, ProbeRequests)
    /\ UNCHANGED <<preflight_passed, diagnostics, join_slots, join_order>>
    /\ UNCHANGED win_vars

\* The same lines probe by probe (task 1): tokio::join! launches the five
\* futures, each completes in its own time, the tuple is ready when all have.
LaunchProbes ==
    /\ rd_pc[1] = "idle"
    /\ clock < MaxRuns
    /\ rd_pc' = [rd_pc EXCEPT ![1] = "joining"]
    /\ join_slots' = NoSlots
    /\ join_order' = <<>>
    /\ event' = Event("run_diagnostics", None, ProbeRequests)
    /\ UNCHANGED <<preflight_passed, diagnostics, rd_result, clock>>
    /\ UNCHANGED win_vars

ProbeComplete(p, obs) ==
    /\ rd_pc[1] = "joining"
    /\ p \notin DOMAIN join_slots
    /\ join_slots' = (p :> RunProbe(p, obs)) @@ join_slots
    /\ join_order' = Append(join_order, <<p, RunProbe(p, obs)>>)
    /\ event' = Event("run_diagnostics", None, {})
    /\ UNCHANGED <<preflight_passed, diagnostics, rd_pc, rd_result, clock>>
    /\ UNCHANGED win_vars

\* Mutant: the status is that of the first probe to complete with a failure.
JoinReady_FirstFailureDecides ==
    /\ rd_pc[1] = "joining"
    /\ DOMAIN join_slots = ProbeNames
    /\ clock' = clock + 1
    /\ LET failed == SelectSeq(join_order, LAMBDA x : ~x[2].passed)
           status == IF failed = <<>> THEN "OK"
                     ELSE IF failed[1][2].severity = "error" THEN "ERROR"
                     ELSE "WARNING"
       IN rd_result' = [rd_result EXCEPT ![1] =
               Some([status |-> status, checks |-> join_slots, timestamp |-> clock + 1])]
    /\ rd_pc' = [rd_pc EXCEPT ![1] = "store_gate"]
    /\ join_slots' = NoSlots
    /\ event' = Event("run_diagnostics", None, {})
    /\ UNCHANGED <<preflight_passed, diagnostics, join_order>>
    /\ UNCHANGED win_vars

\* Lines 255-286: the tuple of the five outputs is ready, each output is
\* inserted under its probe's name, the report is built.
JoinReady ==
    /\ rd_pc[1] = "joining"
    /\ DOMAIN join_slots = ProbeNames
    /\ clock' = clock + 1
    /\ rd_result' = [rd_result EXCEPT ![1] = Some(DiagnosticsResult(join_slots, clock + 1))]
    /\ rd_pc' = [rd_pc EXCEPT ![1] = "store_gate"]
    /\ join_slots' = NoSlots
    /\ event' = Event("run_diagnostics", None, {})
    /\ UNCHANGED <<preflight_passed, diagnostics, join_order>>
    /\ UNCHANGED win_vars

\* Mutant: a WARNING report opens the gate too.
GateValue_WarningPasses(result) == result.status # "ERROR"
\* Line 289: *state.preflight_passed.lock().unwrap() = status == "OK".
GateValue(result) == result.status = "OK"

StoreGate(t) ==
    /\ rd_pc[t] = "store_gate"
    /\ preflight_passed' = GateValue(Unwrap(rd_result[t]))
    /\ rd_pc' = [rd_pc EXCEPT ![t] = "store_report"]
    /\ join_order' = <<>>
    /\ event' = Event("run_diagnostics", None, {})
    /\ UNCHANGED <<diagnostics, rd_result, join_slots, clock>>
    /\ UNCHANGED win_vars

\* Lines 290-292: the report retained under the second mutex, then returned.
StoreReport(t) ==
    /\ rd_pc[t] = "store_report"
    /\ diagnostics' = Some(Unwrap(rd_result[t]))
    /\ rd_pc' = [rd_pc EXCEPT ![t] = "idle"]
    /\ rd_result' = [rd_result EXCEPT ![t] = None]
    /\ event' = Event("run_diagnostics", Some(Ok(Unwrap(rd_result[t]))), {})
    /\ UNCHANGED <<preflight_passed, join_slots, join_order, clock>>
    /\ UNCHANGED win_vars

\* ------------------------------------------------------ backend commands

PreflightErrors ==
    {"Preflight checks failed - run diagnostics first", "Preflight checks failed"}

\* Mutant: evaluate without its check of the gate.
evaluate_ungated(gate, reply) ==
    Event("evaluate",
          Some(CASE reply = "success" -> Ok("EvaluateResponse")
                 [] reply = "success_malformed" -> Err("Failed to parse response")
                 [] reply = "http_error" -> Err("Backend error")
                 [] reply = "unreachable" -> Err("Request failed")),
          {"backend:/evaluate"})
\* evaluate: `gate` is the value read under the lock at line 301.
evaluate(gate, reply) ==
    IF ~gate
    THEN Event("evaluate", Some(Err("Preflight checks failed - run diagnostics first")), {})
    ELSE Event("evaluate",
               Some(CASE reply = "success" -> Ok("EvaluateResponse")
                      [] reply = "success_malformed" -> Err("Failed to parse response")
                      [] reply = "http_error" -> Err("Backend error")
                      [] reply = "unreachable" -> Err("Request failed")),
               {"backend:/evaluate"})

mutate_workflow(gate, reply) ==
    IF ~gate
    THEN Event("mutate_workflow", Some(Err("Preflight checks failed")), {})
    ELSE Event("mutate_workflow",
               Some(CASE reply = "success" -> Ok("MutateResponse")
                      [] reply = "success_malformed" -> Err("Failed to parse response")
                      [] OTHER -> Err("Mutation request failed")),
               {"backend:/mutate"})

\* The four commands that read no gate: the request is sent in every state.
Ungated(op, path, reply, type, failure) ==
    Event(op,
          Some(CASE reply = "success" -> Ok(type)
                 [] reply = "success_malformed" -> Err("Failed to parse response")
                 [] OTHER -> Err(failure)),
          {path})

get_bandit_status(gate, reply) ==
    Ungated("get_bandit_status", "backend:/bandit/status", reply,
            "BanditStatus", "Failed to get bandit status")

create_memory_snapshot(gate, reply) ==
    Ungated("create_memory_snapshot", "backend:/memory/snapshot", reply,
            "MemorySnapshot", "Failed to create memory snapshot")

get_workflow_dag(gate, reply) ==
    Ungated("get_workflow_dag", "backend:/workflow/dag", reply,
            "WorkflowDAG", "Failed to get workflow DAG")

get_telemetry_metrics(gate, reply) ==
    Ungated("get_telemetry_metrics", "backend:/telemetry/metrics", reply,
            "TelemetryMetrics", "Failed to get telemetry metrics")

is_preflight_passed(gate) == Event("is_preflight_passed", Some(Ok(gate)), {})

Evaluate(reply) ==
    /\ event' = evaluate(preflight_passed, reply)
    /\ UNCHANGED diag_vars
    /\ UNCHANGED win_vars

MutateWorkflow(reply) ==
    /\ event' = mutate_workflow(preflight_passed, reply)
    /\ UNCHANGED diag_vars
    /\ UNCHANGED win_vars

GetBanditStatus(reply) ==
    /\ event' = get_bandit_status(preflight_passed, reply)
    /\ UNCHANGED diag_vars
    /\ UNCHANGED win_vars

CreateMemorySnapshot(reply) ==
    /\ event' = create_memory_snapshot(preflight_passed, reply)
    /\ UNCHANGED diag_vars
    /\ UNCHANGED win_vars

GetWorkflowDag(reply) ==
    /\ event' = get_workflow_dag(preflight_passed, reply)
    /\ UNCHANGED diag_vars
    /\ UNCHANGED win_vars

GetTelemetryMetrics(reply) ==
    /\ event' = get_telemetry_metrics(preflight_passed, reply)
    /\ UNCHANGED diag_vars
    /\ UNCHANGED win_vars

IsPreflightPassed ==
    /\ event' = is_preflight_passed(preflight_passed)
    /\ UNCHANGED diag_vars
    /\ UNCHANGED win_vars

\* ------------------------------------------------------- window_manager

\* The office types the callers ask for (two of the 43), and the tables of
\* OfficeType for them and for the types with a size of their own.
OfficeTypes == {"Orchestrator", "Security"}

to_string(office_type) ==
    CASE office_type = "Orchestrator" -> "Orchestrator"
      [] office_type = "Memory" -> "Memory Graph"
      [] office_type = "Security" -> "Security Office"
      [] office_type = "TradingOffice" -> "Trading Office"
      [] OTHER -> office_type

get_default_size(office_type) ==
    CASE office_type = "Orchestrator" -> <<1400, 900>>
      [] office_type = "Memory" -> <<1200, 800>>
      [] office_type \in {"TradingOffice", "CryptoOffice"} -> <<1600, 900>>
      [] office_type = "QuantumComputing" -> <<1500, 850>>
      [] OTHER -> <<1024, 768>>

\* The arguments of create_office_window: shared_memory_ttl is an Option<u64>.
TtlArgs == {None, Some(60)}
CreateArgs ==
    [office_type : OfficeTypes, memory_consent : BOOLEAN, shared_memory_ttl : TtlArgs]

unwrap_or(o, default) == IF IsSome(o) THEN Unwrap(o) ELSE default

\* Mutant: the TTL argument is dropped, every window gets the default.
OfficeWindow_DefaultTtlOnly(window_id, args) ==
    [id |-> window_id,
     office_type |-> args.office_type,
     title |-> <<"Unity", to_string(args.office_type)>>,
     position |-> None,
     size |-> get_default_size(args.office_type),
     memory_consent |-> args.memory_consent,
     shared_memory_ttl |-> DefaultTtl]
\* Lines 197-205: the record create_office_window stores.
OfficeWindow(window_id, args) ==
    [id |-> window_id,
     office_type |-> args.office_type,
     title |-> <<"Unity", to_string(args.office_type)>>,
     position |-> None,
     size |-> get_default_size(args.office_type),
     memory_consent |-> args.memory_consent,
     shared_memory_ttl |-> unwrap_or(args.shared_memory_ttl, DefaultTtl)]

NoWindows == [k \in {} |-> OfficeWindow(0, [office_type |-> "Orchestrator",
                 memory_consent |-> FALSE, shared_memory_ttl |-> None])]

\* Mutant: the map is replaced by one holding the new entry alone.
insert_Overwrites(map, key, value) == [k \in {key} |-> value]
\* HashMap::insert and HashMap::remove.
insert(map, key, value) ==
    [k \in DOMAIN map \cup {key} |-> IF k = key THEN value ELSE map[k]]
remove(map, key) == [k \in DOMAIN map \ {key} |-> map[k]]

Least(S) == IF S = {} THEN {} ELSE {CHOOSE u \in S : \A v \in S : u <= v}

\* Mutant: the identifier is one that no live window has, so that the
\* identifier of a closed window comes back.
NewUuids_NotLive == Least(UuidSpace \ (DOMAIN windows \cup tk_windows))
\* Uuid::new_v4(): 122 random bits, taken never to repeat a value. The
\* identifiers are opaque (only compared), so the value drawn is named by the
\* least number not drawn before.
NewUuids == Least(UuidSpace \ uuid_drawn)

\* tokio::sync::RwLock of `windows`: write() is granted when no guard is
\* held. Every writer below takes and drops its guard inside one step, so
\* the guards held between steps are the read guards of the send loops.
WriteGranted == rw_readers = {}

\* Mutant: the record is stored before the toolkit is asked for the window.
CreateBuild_StoreFirst(c, args, built) ==
    /\ w_pc[c] = "idle"
    /\ \E u \in NewUuids :
        /\ uuid_drawn' = uuid_drawn \cup {u}
        /\ windows' = insert(windows, u, OfficeWindow(u, args))
        /\ IF built
           THEN /\ tk_windows' = tk_windows \cup {u}
                /\ w_local' = [w_local EXCEPT ![c] =
                        Some([args |-> args, office_window |-> OfficeWindow(u, args)])]
                /\ w_pc' = [w_pc EXCEPT ![c] = "create_insert"]
                /\ event' = EventOf("create_office_window", args, None,
                                    {"toolkit:build:ok"})
           ELSE /\ event' = EventOf("create_office_window", args,
                                    Some(Err("Failed to create window")),
                                    {"toolkit:build:failed"})
                /\ UNCHANGED <<tk_windows, w_local, w_pc>>
    /\ UNCHANGED <<issued, rw_readers>>
    /\ UNCHANGED diag_vars

\* create_office_window, lines 178-205: the identifier drawn, the toolkit
\* asked to build the window (`built`: whether it does), the record prepared.
\* A failed build returns the error at the `?` of line 194.
CreateBuild(c, args, built) ==
    /\ w_pc[c] = "idle"
    /\ \E u \in NewUuids :
        /\ uuid_drawn' = uuid_drawn \cup {u}
        /\ IF built
           THEN /\ tk_windows' = tk_windows \cup {u}
                /\ w_local' = [w_local EXCEPT ![c] =
                        Some([args |-> args, office_window |-> OfficeWindow(u, args)])]
                /\ w_pc' = [w_pc EXCEPT ![c] = "create_insert"]
                /\ event' = EventOf("create_office_window", args, None,
                                    {"toolkit:build:ok"})
           ELSE /\ event' = EventOf("create_office_window", args,
                                    Some(Err("Failed to create window")),
                                    {"toolkit:build:failed"})
                /\ UNCHANGED <<tk_windows, w_local, w_pc>>
    /\ UNCHANGED <<windows, issued, rw_readers>>
    /\ UNCHANGED diag_vars

\* Lines 207-213 under the write lock: the record inserted, the listeners
\* set up (setup_window_ipc always returns Ok), the identifier returned.
CreateInsert(c) ==
    /\ w_pc[c] = "create_insert"
    /\ WriteGranted
    /\ LET local == Unwrap(w_local[c])
           window_id == local.office_window.id
       IN /\ windows' = insert(windows, window_id, local.office_window)
          /\ issued' = issued \cup {window_id}
          /\ event' = EventOf("create_office_window", local.args,
                              Some(Ok(window_id)), {})
    /\ w_pc' = [w_pc EXCEPT ![c] = "idle"]
    /\ w_local' = [w_local EXCEPT ![c] = None]
    /\ UNCHANGED <<tk_windows, uuid_drawn, rw_readers>>
    /\ UNCHANGED diag_vars

\* Mutant: close_office_window without the write guard.
CloseOfficeWindow_Unguarded(window_id, closed) ==
    /\ windows' = remove(windows, window_id)
    /\ IF window_id \in tk_windows
       THEN IF closed
            THEN /\ tk_windows' = tk_windows \ {window_id}
                 /\ event' = EventOf("close_office_window", window_id,
                                     Some(Ok("unit")), {"toolkit:close:ok"})
            ELSE /\ tk_windows' = tk_windows
                 /\ event' = EventOf("close_office_window", window_id,
                                     Some(Err("Failed to close window")),
                                     {"toolkit:close:failed"})
       ELSE /\ tk_windows' = tk_windows
            /\ event' = EventOf("close_office_window", window_id, Some(Ok("unit")), {})
    /\ UNCHANGED <<uuid_drawn, issued, w_pc, w_local, rw_readers>>
    /\ UNCHANGED diag_vars

\* close_office_window, lines 245-256 under the write lock: the record
\* removed, then the toolkit's window, if it has one of that label, closed
\* (`closed`: whether Window::close succeeds).
CloseOfficeWindow(window_id, closed) ==
    /\ WriteGranted
    /\ windows' = remove(windows, window_id)
    /\ IF window_id \in tk_windows
       THEN IF closed
            THEN /\ tk_windows' = tk_windows \ {window_id}
                 /\ event' = EventOf("close_office_window", window_id,
                                     Some(Ok("unit")), {"toolkit:close:ok"})
            ELSE /\ tk_windows' = tk_windows
                 /\ event' = EventOf("close_office_window", window_id,
                                     Some(Err("Failed to close window")),
                                     {"toolkit:close:failed"})
       ELSE /\ tk_windows' = tk_windows
            /\ event' = EventOf("close_office_window", window_id, Some(Ok("unit")), {})
    /\ UNCHANGED <<uuid_drawn, issued, w_pc, w_local, rw_readers>>
    /\ UNCHANGED diag_vars

\* The orders in which HashMap::values may yield the records.
KeyOrders(map) ==
    {ks \in [1..Cardinality(DOMAIN map) -> DOMAIN map] :
        \A i, j \in DOMAIN ks : i # j => ks[i] # ks[j]}

\* get_active_offices, lines 259-262: the records, in any order.
get_active_offices(map) ==
    {[i \in DOMAIN ks |-> map[ks[i]]] : ks \in KeyOrders(map)}

GetActiveOffices ==
    /\ \E offices \in get_active_offices(windows) :
            event' = Event("get_active_offices", Some(Ok(offices)), {})
    /\ UNCHANGED win_vars
    /\ UNCHANGED diag_vars

\* ------------------------------------------------- window_manager.rs: emits

\* The serde_json::Value payloads sent.
Payloads == {"m"}

\* One Window::emit call: the window, the event name, the payload, whether
\* the toolkit delivered it.
Emit(window_id, name, payload, ok) ==
    [to |-> window_id, name |-> name, payload |-> payload, ok |-> ok]

\* The locals of send_to_office and broadcast_to_all while they hold the
\* read guard: `iter` is what the iterator over the map has yet to yield
\* (HashMap yields its entries in an unspecified order), `emitted` the emit
\* calls made so far, `filter` the role compared at line 273 (None for a
\* broadcast, which compares none).
EmitLoop(op, arg, filter, name, message, error, iter) ==
    [op |-> op, arg |-> arg, filter |-> filter, name |-> name, message |-> message,
     error |-> error, iter |-> iter, emitted |-> <<>>]

\* send_to_office, lines 269-271: the read guard taken, the iteration begun.
SendToOfficeStart(c, office_type, message) ==
    /\ w_pc[c] = "idle"
    /\ \E iter \in get_active_offices(windows) :
            w_local' = [w_local EXCEPT ![c] =
                Some(EmitLoop("send_to_office",
                              [office_type |-> office_type, message |-> message],
                              Some(office_type), "office_message", message,
                              "Failed to send message", iter))]
    /\ w_pc' = [w_pc EXCEPT ![c] = "emit_loop"]
    /\ rw_readers' = rw_readers \cup {c}
    /\ event' = EventOf("send_to_office",
                        [office_type |-> office_type, message |-> message], None, {})
    /\ UNCHANGED <<windows, tk_windows, uuid_drawn, issued>>
    /\ UNCHANGED diag_vars

\* broadcast_to_all, lines 286-288: the read guard taken, the iteration begun.
BroadcastToAllStart(c, message) ==
    /\ w_pc[c] = "idle"
    /\ \E iter \in get_active_offices(windows) :
            w_local' = [w_local EXCEPT ![c] =
                Some(EmitLoop("broadcast_to_all", [message |-> message],
                              None, "system_broadcast", message,
                              "Failed to broadcast", iter))]
    /\ w_pc' = [w_pc EXCEPT ![c] = "emit_loop"]
    /\ rw_readers' = rw_readers \cup {c}
    /\ event' = EventOf("broadcast_to_all", [message |-> message], None, {})
    /\ UNCHANGED <<windows, tk_windows, uuid_drawn, issued>>
    /\ UNCHANGED diag_vars

\* One iteration of the loop (lines 272-280, 288-294): an entry of another
\* role, or one the toolkit has no window for, is passed over; otherwise the
\* payload is emitted to the window (`delivered`: whether Window::emit
\* succeeds), and a failed emit returns the error at the `?`, dropping the
\* guard with the rest of the entries not visited.
EmitNext(c, delivered) ==
    /\ w_pc[c] = "emit_loop"
    /\ LET local == Unwrap(w_local[c])
       IN /\ local.iter # <<>>
          /\ LET office_window == Head(local.iter)
                 selected == \/ local.filter = None
                             \/ office_window.office_type = Unwrap(local.filter)
                 emit == Emit(office_window.id, local.name, local.message, delivered)
             IN IF selected /\ office_window.id \in tk_windows
                THEN IF delivered
                     THEN /\ w_local' = [w_local EXCEPT ![c] =
                                Some([local EXCEPT !.iter = Tail(local.iter),
                                                   !.emitted = Append(local.emitted, emit)])]
                          /\ event' = EmitEvent(local.op, local.arg, None, <<emit>>)
                          /\ UNCHANGED <<w_pc, rw_readers>>
                     ELSE /\ w_local' = [w_local EXCEPT ![c] = None]
                          /\ w_pc' = [w_pc EXCEPT ![c] = "idle"]
                          /\ rw_readers' = rw_readers \ {c}
                          /\ event' = EmitEvent(local.op, local.arg,
                                                Some(Err(local.error)), <<emit>>)
                ELSE /\ delivered
                     /\ w_local' = [w_local EXCEPT ![c] =
                                Some([local EXCEPT !.iter = Tail(local.iter)])]
                     /\ event' = EmitEvent(local.op, local.arg, None, <<>>)
                     /\ UNCHANGED <<w_pc, rw_readers>>
    /\ UNCHANGED <<windows, tk_windows, uuid_drawn, issued>>
    /\ UNCHANGED diag_vars

\* Mutant: the command returns with its read guard never dropped.
EmitDone_GuardKept(c) ==
    /\ w_pc[c] = "emit_loop"
    /\ LET local == Unwrap(w_local[c])
       IN /\ local.iter = <<>>
          /\ event' = EmitEvent(local.op, local.arg, Some(Ok("unit")), <<>>)
    /\ w_local' = [w_local EXCEPT ![c] = None]
    /\ w_pc' = [w_pc EXCEPT ![c] = "idle"]
    /\ UNCHANGED <<windows, tk_windows, uuid_drawn, issued, rw_readers>>
    /\ UNCHANGED diag_vars

\* The iterator exhausted: Ok(()) at lines 282 and 297, the guard dropped.
EmitDone(c) ==
    /\ w_pc[c] = "emit_loop"
    /\ LET local == Unwrap(w_local[c])
       IN /\ local.iter = <<>>
          /\ event' = EmitEvent(local.op, local.arg, Some(Ok("unit")), <<>>)
    /\ w_local' = [w_local EXCEPT ![c] = None]
    /\ w_pc' = [w_pc EXCEPT ![c] = "idle"]
    /\ rw_readers' = rw_readers \ {c}
    /\ UNCHANGED <<windows, tk_windows, uuid_drawn, issued>>
    /\ UNCHANGED diag_vars

\* ------------------------------------- window_manager.rs: consent and TTL

\* The TTLs update_memory_ttl is called with.
TtlValues == {60, 7200}

\* update_memory_consent, lines 301-322 under the write lock: the consent of
\* the record set, then the window, if the toolkit has one of that label,
\* told of it (`notified`: whether Window::emit succeeds); a failed emit
\* returns the error at the `?` with the consent already stored. An
\* identifier without a record: "Window not found".
UpdateMemoryConsent(window_id, consent, notified) ==
    /\ WriteGranted
    /\ LET arg == [window_id |-> window_id, consent |-> consent]
           emit == Emit(window_id, "memory_consent_updated", consent, notified)
       IN IF window_id \in DOMAIN windows
          THEN /\ windows' = [windows EXCEPT ![window_id].memory_consent = consent]
               /\ IF window_id \in tk_windows
                  THEN event' = EmitEvent("update_memory_consent", arg,
                                          IF notified THEN Some(Ok("unit"))
                                          ELSE Some(Err("Failed to update consent")),
                                          <<emit>>)
                  ELSE /\ notified
                       /\ event' = EmitEvent("update_memory_consent", arg,
                                             Some(Ok("unit")), <<>>)
          ELSE /\ notified
               /\ windows' = windows
               /\ event' = EmitEvent("update_memory_consent", arg,
                                     Some(Err("Window not found")), <<>>)
    /\ UNCHANGED <<tk_windows, uuid_drawn, issued, w_pc, w_local, rw_readers>>
    /\ UNCHANGED diag_vars

\* Mutant: the record is built anew around the TTL, as a create with the
\* default arguments builds it.
UpdateMemoryTtl_RecordRebuilt(window_id, ttl) ==
    /\ WriteGranted
    /\ LET arg == [window_id |-> window_id, ttl |-> ttl]
       IN IF window_id \in DOMAIN windows
          THEN /\ windows' = [windows EXCEPT ![window_id] =
                        OfficeWindow(window_id, [office_type |-> "Orchestrator",
                                                 memory_consent |-> @.memory_consent,
                                                 shared_memory_ttl |-> Some(ttl)])]
               /\ event' = EventOf("update_memory_ttl", arg, Some(Ok("unit")), {})
          ELSE /\ windows' = windows
               /\ event' = EventOf("update_memory_ttl", arg,
                                   Some(Err("Window not found")), {})
    /\ UNCHANGED <<tk_windows, uuid_drawn, issued, w_pc, w_local, rw_readers>>
    /\ UNCHANGED diag_vars

\* update_memory_ttl, lines 325-334 under the write lock.
UpdateMemoryTtl(window_id, ttl) ==
    /\ WriteGranted
    /\ LET arg == [window_id |-> window_id, ttl |-> ttl]
       IN IF window_id \in DOMAIN windows
          THEN /\ windows' = [windows EXCEPT ![window_id].shared_memory_ttl = ttl]
               /\ event' = EventOf("update_memory_ttl", arg, Some(Ok("unit")), {})
          ELSE /\ windows' = windows
               /\ event' = EventOf("update_memory_ttl", arg,
                                   Some(Err("Window not found")), {})
    /\ UNCHANGED <<tk_windows, uuid_drawn, issued, w_pc, w_local, rw_readers>>
    /\ UNCHANGED diag_vars

\* ---------------------------------------------- window_manager.rs: workflows

\* WorkflowAction, lines 379-384.
OpenOffice(office_type) == [action |-> "OpenOffice", office_type |-> office_type]
SendMessage(office_type, message) ==
    [action |-> "SendMessage", office_type |-> office_type, message |-> message]
WaitForResponse(timeout) == [action |-> "WaitForResponse", timeout |-> timeout]
CloseOffice(window_id) == [action |-> "CloseOffice", window_id |-> window_id]

\* A label no window has: CloseOffice carries any String.
NoSuchWindow == 0

\* The labels a workflow definition can name. The definition is a value the
\* caller hands over before the run (line 339), and a window's label is drawn
\* by Uuid::new_v4 inside create_office_window, so the definition can hold
\* labels drawn before the call and strings that are no label, never the
\* label of a window the run itself is going to open.
KnownLabels == uuid_drawn \cup {NoSuchWindow}

\* The steps workflow definitions are made of here.
WorkflowActions ==
    {OpenOffice("Orchestrator"), WaitForResponse(1)}
        \cup {SendMessage("Orchestrator", message) : message \in Payloads}
        \cup {CloseOffice(window_id) : window_id \in KnownLabels}

\* WorkflowDefinition.steps: the definitions of one to MaxSteps steps.
WorkflowDefinitions ==
    UNION {[1..n -> WorkflowActions] : n \in 1..MaxSteps}

\* The run of orchestrate_workflow: `steps` the definition, `pc` the index of
\* the step the for loop is at, `failed` the error a step returned to the
\* `?`. The program keeps no more; the other fields record the run for the
\* properties stated of it: `trace` the steps started and ended, `at_start`
\* the identifiers in the registry at the call, `opened` the identifiers its
\* creates returned (line 346 drops them), `emits` the emit calls of its sends.
Run(steps) ==
    [steps |-> steps, pc |-> 1, failed |-> None, trace |-> <<>>,
     at_start |-> DOMAIN windows, opened |-> {}, emits |-> <<>>]

Running(c) ==
    /\ IsSome(wf[c])
    /\ Unwrap(wf[c]).failed = None
    /\ Unwrap(wf[c]).pc <= Len(Unwrap(wf[c]).steps)

\* The step the run of c is at.
Step(c) == Unwrap(wf[c]).steps[Unwrap(wf[c]).pc]

\* The run is at a step of this kind and the step has not been started.
AtStep(c, action) ==
    /\ Running(c)
    /\ w_pc[c] = "idle"
    /\ Step(c).action = action

Started(run) == [run EXCEPT !.trace = Append(@, <<"start", run.pc>>)]

\* What Resume records of a step's call, whatever its result.
Seen(run, e) ==
    [run EXCEPT
        !.emits = @ \o e.emits,
        !.opened = IF e.op = "create_office_window" /\ IsSome(e.res) /\ Unwrap(e.res).ok
                   THEN @ \cup {Unwrap(e.res).val} ELSE @]

\* Mutant: the error of a step is dropped and the loop goes on.
Resume_ErrorDropped(run, e) ==
    IF ~IsSome(e.res) THEN Seen(run, e)
    ELSE [Seen(run, e) EXCEPT
            !.pc = @ + 1,
            !.trace = Append(@, <<IF Unwrap(e.res).ok THEN "end" ELSE "failed", run.pc>>)]

\* Mutant: after a step that ended well the loop passes over the next one.
Resume_NextSkipped(run, e) ==
    IF ~IsSome(e.res) THEN Seen(run, e)
    ELSE IF Unwrap(e.res).ok
         THEN [Seen(run, e) EXCEPT !.pc = IF @ < Len(run.steps) THEN @ + 2 ELSE @ + 1,
                                   !.trace = Append(@, <<"end", run.pc>>)]
         ELSE [Seen(run, e) EXCEPT !.failed = Some(Unwrap(e.res).val),
                                   !.trace = Append(@, <<"failed", run.pc>>)]

\* What the call a step makes leaves to the run: nothing while the call has
\* not returned, the next step after Ok, the error at the `?` after Err.
Resume(run, e) ==
    IF ~IsSome(e.res) THEN Seen(run, e)
    ELSE IF Unwrap(e.res).ok
         THEN [Seen(run, e) EXCEPT !.pc = @ + 1, !.trace = Append(@, <<"end", run.pc>>)]
         ELSE [Seen(run, e) EXCEPT !.failed = Some(Unwrap(e.res).val),
                                   !.trace = Append(@, <<"failed", run.pc>>)]

\* orchestrate_workflow, lines 337-343: the call, the run identifier drawn.
OrchestrateWorkflow(c, workflow) ==
    /\ w_pc[c] = "idle"
    /\ wf[c] = None
    /\ wf' = [wf EXCEPT ![c] = Some(Run(workflow))]
    /\ event' = EventOf("orchestrate_workflow", workflow, None, {})
    /\ UNCHANGED <<windows, tk_windows, uuid_drawn, issued, w_pc, w_local, rw_readers>>
    /\ UNCHANGED diag_vars

\* Line 346: create_office_window(office_type, true, None).await?
StepOpenOffice(c, built) ==
    /\ AtStep(c, "OpenOffice")
    /\ CreateBuild(c, [office_type |-> Step(c).office_type, memory_consent |-> TRUE,
                       shared_memory_ttl |-> None], built)
    /\ wf' = [wf EXCEPT ![c] = Some(Resume(Started(Unwrap(wf[c])), event'))]

\* Line 349: send_to_office(&office_type, message).await?
StepSendMessage(c) ==
    /\ AtStep(c, "SendMessage")
    /\ SendToOfficeStart(c, Step(c).office_type, Step(c).message)
    /\ wf' = [wf EXCEPT ![c] = Some(Resume(Started(Unwrap(wf[c])), event'))]

\* Line 355: close_office_window(&window_id).await?
StepCloseOffice(c, closed) ==
    /\ AtStep(c, "CloseOffice")
    /\ CloseOfficeWindow(Step(c).window_id, closed)
    /\ wf' = [wf EXCEPT ![c] = Some(Resume(Started(Unwrap(wf[c])), event'))]

\* Mutant: the run keeps a read guard of `windows` while it sleeps.
StepWaitForResponse_GuardHeld(c) ==
    /\ AtStep(c, "WaitForResponse")
    /\ w_pc' = [w_pc EXCEPT ![c] = "sleep"]
    /\ rw_readers' = rw_readers \cup {c}
    /\ wf' = [wf EXCEPT ![c] = Some(Started(Unwrap(wf[c])))]
    /\ event' = Event("orchestrate_workflow", None, {})
    /\ UNCHANGED <<windows, tk_windows, uuid_drawn, issued, w_local>>
    /\ UNCHANGED diag_vars

\* Line 352: tokio::time::sleep(timeout).await begins; the task is suspended
\* with no guard of `windows` in its hands.
StepWaitForResponse(c) ==
    /\ AtStep(c, "WaitForResponse")
    /\ w_pc' = [w_pc EXCEPT ![c] = "sleep"]
    /\ wf' = [wf EXCEPT ![c] = Some(Started(Unwrap(wf[c])))]
    /\ event' = Event("orchestrate_workflow", None, {})
    /\ UNCHANGED <<windows, tk_windows, uuid_drawn, issued, w_local, rw_readers>>
    /\ UNCHANGED diag_vars

\* The sleep over: the loop goes on to the next step.
WaitElapsed(c) ==
    /\ IsSome(wf[c])
    /\ w_pc[c] = "sleep"
    /\ w_pc' = [w_pc EXCEPT ![c] = "idle"]
    /\ wf' = [wf EXCEPT ![c] = Some(Resume(Unwrap(wf[c]), Event("sleep", Some(Ok("unit")), {})))]
    /\ event' = Event("orchestrate_workflow", None, {})
    /\ UNCHANGED <<windows, tk_windows, uuid_drawn, issued, w_local, rw_readers>>
    /\ UNCHANGED diag_vars

\* A later step of the call a workflow step made (the insert of a create, an
\* iteration or the end of a send), its result handed to the run.
StepContinues(c, A) ==
    /\ IsSome(wf[c])
    /\ A
    /\ wf' = [wf EXCEPT ![c] = Some(Resume(Unwrap(wf[c]), event'))]

\* orchestrate_workflow returns: the error of the failed step from its `?`,
\* or Ok(workflow_id) at line 360 after the last step. The identifier is a
\* Uuid::new_v4 value of the run's own; the program compares it with nothing.
OrchestrateWorkflowReturn(c) ==
    /\ IsSome(wf[c])
    /\ w_pc[c] = "idle"
    /\ LET run == Unwrap(wf[c])
       IN /\ IsSome(run.failed) \/ run.pc > Len(run.steps)
          /\ event' = Event("orchestrate_workflow",
                            IF IsSome(run.failed) THEN Some(Err(Unwrap(run.failed)))
                            ELSE Some(Ok("workflow_id")), {})
    /\ wf' = [wf EXCEPT ![c] = None]
    /\ UNCHANGED <<windows, tk_windows, uuid_drawn, issued, w_pc, w_local, rw_readers>>
    /\ UNCHANGED diag_vars

\* ---------------------------------------------------------- specifications

\* main(): the gate false, no report, no command running.
Init ==
    /\ preflight_passed = FALSE
    /\ diagnostics = None
    /\ rd_pc = [t \in Tasks |-> "idle"]
    /\ rd_result = [t \in Tasks |-> None]
    /\ join_slots = NoSlots
    /\ join_order = <<>>
    /\ clock = 0
    /\ windows = NoWindows
    /\ tk_windows = {}
    /\ uuid_drawn = {}
    /\ issued = {}
    /\ w_pc = [c \in Callers |-> "idle"]
    /\ w_local = [c \in Callers |-> None]
    /\ rw_readers = {}
    /\ wf = [c \in Callers |-> None]
    /\ event = Event("main", None, {})

\* The gate and the commands, with overlapping runs of run_diagnostics.
NextDiag ==
    \/ \E t \in Tasks, obs \in Environments : RunProbes(t, obs)
    \/ \E t \in Tasks : StoreGate(t)
    \/ \E t \in Tasks : StoreReport(t)
    \/ \E reply \in BackendReplies : Evaluate(reply)
    \/ \E reply \in BackendReplies : MutateWorkflow(reply)
    \/ \E reply \in BackendReplies : GetBanditStatus(reply)
    \/ \E reply \in BackendReplies : CreateMemorySnapshot(reply)
    \/ \E reply \in BackendReplies : GetWorkflowDag(reply)
    \/ \E reply \in BackendReplies : GetTelemetryMetrics(reply)
    \/ IsPreflightPassed

DiagSpec == Init /\ [][NextDiag]_vars

\* One run of run_diagnostics at a time, its five probes completing in any
\* order with any observation.
NextProbe ==
    \/ LaunchProbes
    \/ \E p \in ProbeNames : \E obs \in ObsOf(p) : ProbeComplete(p, obs)
    \/ JoinReady
    \/ StoreGate(1)
    \/ StoreReport(1)

ProbeSpec == Init /\ [][NextProbe]_vars

\* The window registry under concurrent callers.
NextWin ==
    \/ \E c \in Callers, args \in CreateArgs, built \in BOOLEAN :
            CreateBuild(c, args, built) /\ UNCHANGED wf
    \/ \E c \in Callers : CreateInsert(c) /\ UNCHANGED wf
    \/ \E window_id \in UuidSpace, closed \in BOOLEAN :
            CloseOfficeWindow(window_id, closed) /\ UNCHANGED wf
    \/ GetActiveOffices

WinSpec == Init /\ [][NextWin]_vars

\* The creates of the message-routing runs: the role varies, the consent
\* and the TTL do not matter to a send.
RouterArgs ==
    [office_type : OfficeTypes, memory_consent : {TRUE}, shared_memory_ttl : {None}]

\* The commands under way.
InFlight == {c \in Callers : w_pc[c] # "idle"}

\* A command that takes several steps is started while at most one other is
\* under way: the runs below overlap two such commands, of any two callers,
\* with closes of the labels drawn so far at every point. The toolkit builds
\* every window asked for (a failed build is the matter of WinSpec); windows
\* of both roles are created, the sends are to one of them.
Admitted == \A a, b \in InFlight : a = b

\* Sends and broadcasts among creates and closes.
NextRouter ==
    \/ \E c \in Callers, args \in RouterArgs :
            Admitted /\ CreateBuild(c, args, TRUE) /\ UNCHANGED wf
    \/ \E c \in Callers : CreateInsert(c) /\ UNCHANGED wf
    \/ \E window_id \in uuid_drawn, closed \in BOOLEAN :
            CloseOfficeWindow(window_id, closed) /\ UNCHANGED wf
    \/ \E c \in Callers, message \in Payloads :
            Admitted /\ SendToOfficeStart(c, "Orchestrator", message) /\ UNCHANGED wf
    \/ \E c \in Callers, message \in Payloads :
            Admitted /\ BroadcastToAllStart(c, message) /\ UNCHANGED wf
    \/ \E c \in Callers, delivered \in BOOLEAN : EmitNext(c, delivered) /\ UNCHANGED wf
    \/ \E c \in Callers : EmitDone(c) /\ UNCHANGED wf

RouterSpec == Init /\ [][NextRouter]_vars

\* The creates of the runs that update records: the consent varies.
RegistryArgs ==
    [office_type : {"Orchestrator"}, memory_consent : BOOLEAN, shared_memory_ttl : {None}]

\* Updates of consent and TTL among creates and closes, on the labels drawn
\* so far and on a string that is no label.
NextRegistry ==
    \/ \E c \in Callers, args \in RegistryArgs :
            CreateBuild(c, args, TRUE) /\ UNCHANGED wf
    \/ \E c \in Callers : CreateInsert(c) /\ UNCHANGED wf
    \/ \E window_id \in uuid_drawn, closed \in BOOLEAN :
            CloseOfficeWindow(window_id, closed) /\ UNCHANGED wf
    \/ \E window_id \in KnownLabels, consent \in BOOLEAN, notified \in BOOLEAN :
            UpdateMemoryConsent(window_id, consent, notified) /\ UNCHANGED wf
    \/ \E window_id \in KnownLabels, ttl \in TtlValues :
            UpdateMemoryTtl(window_id, ttl) /\ UNCHANGED wf

RegistrySpec == Init /\ [][NextRegistry]_vars

\* The caller that runs workflows in the specifications below.
Executor == 1

\* Workflow runs, one after the other, of every definition of up to MaxSteps
\* steps, with any outcome of each toolkit call.
NextWorkflow ==
    \/ /\ wf[Executor] = None
       /\ \E workflow \in WorkflowDefinitions : OrchestrateWorkflow(Executor, workflow)
    \/ \E c \in Callers, built \in BOOLEAN : StepOpenOffice(c, built)
    \/ \E c \in Callers : StepContinues(c, CreateInsert(c))
    \/ \E c \in Callers : StepSendMessage(c)
    \/ \E c \in Callers, delivered \in BOOLEAN : StepContinues(c, EmitNext(c, delivered))
    \/ \E c \in Callers : StepContinues(c, EmitDone(c))
    \/ \E c \in Callers : StepWaitForResponse(c)
    \/ \E c \in Callers : WaitElapsed(c)
    \/ \E c \in Callers, closed \in BOOLEAN : StepCloseOffice(c, closed)
    \/ \E c \in Callers : OrchestrateWorkflowReturn(c)

WorkflowSpec == Init /\ [][NextWorkflow]_vars

\* The definitions run while other callers issue commands: a window opened,
\* a wait, a message to the window.
WaitDefinitions ==
    {<<OpenOffice("Orchestrator"), WaitForResponse(1),
       SendMessage("Orchestrator", message)>> : message \in Payloads}

\* The callers that run no workflow.
Others == {c \in Callers : wf[c] = None}

\* A run is suspended in a WaitForResponse step.
Waiting == \E c \in Callers : IsSome(wf[c]) /\ w_pc[c] = "sleep"

\* A run is suspended in a wait and no command of another caller is under
\* way.
WaitingAlone == Waiting /\ \A c \in Others : w_pc[c] = "idle"

\* A run with a wait in it; the other callers issue their commands, one
\* after the other, while the run is suspended in the wait, and finish them
\* then or later.
NextWait ==
    \/ /\ wf[Executor] = None
       /\ \E workflow \in WaitDefinitions : OrchestrateWorkflow(Executor, workflow)
    \/ StepOpenOffice(Executor, TRUE)
    \/ StepContinues(Executor, CreateInsert(Executor))
    \/ StepWaitForResponse(Executor)
    \/ WaitElapsed(Executor)
    \/ StepSendMessage(Executor)
    \/ \E delivered \in BOOLEAN : StepContinues(Executor, EmitNext(Executor, delivered))
    \/ StepContinues(Executor, EmitDone(Executor))
    \/ OrchestrateWorkflowReturn(Executor)
    \/ \E c \in Others, args \in RouterArgs :
            WaitingAlone /\ CreateBuild(c, args, TRUE) /\ UNCHANGED wf
    \/ \E c \in Others : CreateInsert(c) /\ UNCHANGED wf
    \/ \E window_id \in uuid_drawn, closed \in BOOLEAN :
            Waiting /\ CloseOfficeWindow(window_id, closed) /\ UNCHANGED wf
    \/ Waiting /\ GetActiveOffices
    \/ \E c \in Others, message \in Payloads :
            WaitingAlone /\ SendToOfficeStart(c, "Orchestrator", message) /\ UNCHANGED wf
    \/ \E c \in Others, message \in Payloads :
            WaitingAlone /\ BroadcastToAllStart(c, message) /\ UNCHANGED wf
    \/ \E c \in Others, delivered \in BOOLEAN : EmitNext(c, delivered) /\ UNCHANGED wf
    \/ \E c \in Others : EmitDone(c) /\ UNCHANGED wf

WaitSpec == Init /\ [][NextWait]_vars

\* The definitions of the runs below: a window opened, a message sent to
\* its role.
OpenAndSend ==
    {<<OpenOffice("Security"), SendMessage("Security", message)>> : message \in Payloads}

\* The creates of the other callers in those runs.
OrchestratorArgs ==
    [office_type : {"Orchestrator"}, memory_consent : {TRUE}, shared_memory_ttl : {None}]

\* A workflow run is under way.
UnderWay == \E c \in Callers : IsSome(wf[c])

\* The labels of the windows the runs under way have opened.
OpenedLabels == UNION {Unwrap(wf[c]).opened : c \in Callers \ Others}

\* Every operation that meets a record: workflow runs of one caller that
\* open windows of one role, and, begun while a run is under way, creates of
\* the other role, closes, updates of consent and TTL, sends and broadcasts
\* of the other callers. The toolkit calls succeed (their failures change no
\* record).
NextRecords ==
    \/ /\ wf[Executor] = None
       /\ uuid_drawn = {}
       /\ \E workflow \in OpenAndSend : OrchestrateWorkflow(Executor, workflow)
    \/ StepOpenOffice(Executor, TRUE)
    \/ StepContinues(Executor, CreateInsert(Executor))
    \/ StepSendMessage(Executor)
    \/ StepContinues(Executor, EmitNext(Executor, TRUE))
    \/ StepContinues(Executor, EmitDone(Executor))
    \/ OrchestrateWorkflowReturn(Executor)
    \/ \E c \in Others, args \in OrchestratorArgs :
            UnderWay /\ InFlight = {} /\ CreateBuild(c, args, TRUE) /\ UNCHANGED wf
    \/ \E c \in Others : CreateInsert(c) /\ UNCHANGED wf
    \/ \E window_id \in uuid_drawn :
            UnderWay /\ CloseOfficeWindow(window_id, TRUE) /\ UNCHANGED wf
    \/ \E window_id \in OpenedLabels :
            UpdateMemoryConsent(window_id, FALSE, TRUE) /\ UNCHANGED wf
    \/ \E window_id \in OpenedLabels :
            UpdateMemoryTtl(window_id, 60) /\ UNCHANGED wf
    \/ \E c \in Others, message \in Payloads :
            UnderWay /\ InFlight = {} /\ SendToOfficeStart(c, "Security", message)
                /\ UNCHANGED wf
    \/ \E c \in Others, message \in Payloads :
            UnderWay /\ InFlight = {} /\ BroadcastToAllStart(c, message) /\ UNCHANGED wf
    \/ \E c \in Others : EmitNext(c, TRUE) /\ UNCHANGED wf
    \/ \E c \in Others : EmitDone(c) /\ UNCHANGED wf

RecordsSpec == Init /\ [][NextRecords]_vars

\* The definitions of the runs whose progress is followed: one step of each
\* kind, the close naming a label known before the run.
EachKindOnce ==
    {<<OpenOffice("Orchestrator"), WaitForResponse(1),
       SendMessage("Orchestrator", message), CloseOffice(window_id)>> :
        message \in Payloads, window_id \in KnownLabels}

\* The labels Uuid::new_v4 has yet to yield here.
LabelsLeft == Cardinality(UuidSpace \ uuid_drawn)

\* The runs that have yet to open their window.
YetToOpen == {c \in Callers : Running(c) /\ Unwrap(wf[c]).pc = 1}

\* tokio's RwLock queues the tasks that wait for it and grants it in the
\* order of the queue: once a writer waits, a read() that comes later waits
\* behind it. The writers that wait here are the creates past their build
\* (line 207 follows line 194 with no await between them) and the runs at a
\* CloseOffice step (line 355 leads to line 247 likewise); the other writers
\* take and drop the guard within one step.
WriterQueued ==
    \E c \in Callers : w_pc[c] = "create_insert" \/ AtStep(c, "CloseOffice")

ReadGranted == ~WriterQueued

\* The next step of the command or of the run caller c has under way. A
\* step that needs a guard of `windows` is taken when the lock grants it.
Proceed(c) ==
    \/ wf[c] = None /\ CreateInsert(c) /\ UNCHANGED wf
    \/ wf[c] = None /\ (\E delivered \in BOOLEAN : EmitNext(c, delivered)) /\ UNCHANGED wf
    \/ wf[c] = None /\ EmitDone(c) /\ UNCHANGED wf
    \/ \E built \in BOOLEAN : StepOpenOffice(c, built)
    \/ StepContinues(c, CreateInsert(c))
    \/ StepWaitForResponse(c)
    \/ WaitElapsed(c)
    \/ ReadGranted /\ StepSendMessage(c)
    \/ \E delivered \in BOOLEAN : StepContinues(c, EmitNext(c, delivered))
    \/ StepContinues(c, EmitDone(c))
    \/ \E closed \in BOOLEAN : StepCloseOffice(c, closed)
    \/ OrchestrateWorkflowReturn(c)

\* No caller but those that run a workflow has a command under way.
OthersIdle == \A c \in Others : w_pc[c] = "idle"

\* The commands the callers begin: a workflow run, begun on the empty
\* registry, and, while the run is under way, creates, closes of registered
\* windows, lists, updates, sends and broadcasts by the callers that run
\* none, one of their creates, sends and broadcasts at a time beside the
\* run's own. The updates store the values the records have (what they store
\* does not matter to the lock); the emits may fail, and so may every toolkit
\* call of the run. Uuid::new_v4 never runs out: here the creates of the
\* others leave a label for the window the run has yet to open.
Begin ==
    \/ /\ wf[Executor] = None
       /\ uuid_drawn = {}
       /\ \E workflow \in EachKindOnce : OrchestrateWorkflow(Executor, workflow)
    \/ \E c \in Others, args \in OrchestratorArgs :
            /\ UnderWay /\ OthersIdle
            /\ LabelsLeft > Cardinality(YetToOpen)
            /\ CreateBuild(c, args, TRUE) /\ UNCHANGED wf
    \/ \E window_id \in DOMAIN windows :
            UnderWay /\ CloseOfficeWindow(window_id, TRUE) /\ UNCHANGED wf
    \/ UnderWay /\ OthersIdle /\ GetActiveOffices
    \/ \E window_id \in OpenedLabels :
            OthersIdle /\ UpdateMemoryConsent(window_id, TRUE, TRUE) /\ UNCHANGED wf
    \/ \E window_id \in OpenedLabels :
            OthersIdle /\ UpdateMemoryTtl(window_id, DefaultTtl) /\ UNCHANGED wf
    \/ \E c \in Others, message \in Payloads :
            /\ UnderWay /\ OthersIdle /\ ReadGranted
            /\ SendToOfficeStart(c, "Orchestrator", message) /\ UNCHANGED wf
    \/ \E c \in Others, message \in Payloads :
            /\ UnderWay /\ OthersIdle /\ ReadGranted
            /\ BroadcastToAllStart(c, message) /\ UNCHANGED wf

NextLive == Begin \/ \E c \in Callers : Proceed(c)

\* The runtime polls every task that can go on (tokio's scheduler), every
\* toolkit call returns, the sleep ends: a step that stays possible is
\* taken.
Fairness == \A c \in Callers : WF_vars(Proceed(c))

LiveSpec == Init /\ [][NextLive]_vars /\ Fairness

Next ==
    NextDiag \/ NextProbe \/ NextWin \/ NextRouter \/ NextRegistry \/ NextWorkflow
        \/ NextWait \/ NextRecords \/ NextLive

Spec == Init /\ [][Next]_vars

\* ------------------------------------------------- claims: the diagnostics

Failed(r) == {k \in DOMAIN r.checks : ~r.checks[k].passed}

StatusRule(r) ==
    /\ DOMAIN r.checks = ProbeNames
    /\ (r.status = "OK") <=> (Failed(r) = {})
    /\ (r.status = "ERROR") <=> (\E k \in Failed(r) : r.checks[k].severity = "error")
    /\ (r.status = "WARNING") <=>
            (Failed(r) # {} /\ \A k \in Failed(r) : r.checks[k].severity # "error")

Returned(op) == event.op = op /\ IsSome(event.res)

\* C1: whatever the five probes observe, the report run_diagnostics builds,
\* retains and returns has status OK iff no check failed, ERROR iff some
\* failed check has severity error, and WARNING otherwise.
C1_StatusRule ==
    /\ \A t \in Tasks : IsSome(rd_result[t]) => StatusRule(Unwrap(rd_result[t]))
    /\ IsSome(diagnostics) => StatusRule(Unwrap(diagnostics))
    /\ Returned("run_diagnostics") => StatusRule(Unwrap(event.res).val)

\* C1 witness: a returned report in which Ollama failed with severity error
\* and the backend with severity warning, so that the status is ERROR.
C1_Witness ==
    /\ Returned("run_diagnostics")
    /\ Unwrap(event.res).val.status = "ERROR"
    /\ ~Unwrap(event.res).val.checks["ollama"].passed
    /\ Unwrap(event.res).val.checks["backend"].severity = "warning"
    /\ Unwrap(event.res).val.checks["ram"].passed

Quiescent == \A t \in Tasks : rd_pc[t] = "idle"

GateMatchesReport ==
    preflight_passed <=> (IsSome(diagnostics) /\ Unwrap(diagnostics).status = "OK")

\* C2 (as claimed): whenever no run_diagnostics call is in progress, the gate
\* is true iff a report is retained and its status is OK.
C2_QuiescentGateMatchesReport == Quiescent => GateMatchesReport

\* C3 (as claimed): in every state, also while a run is recording its result,
\* the gate and the retained report are those of one run: the gate is true
\* iff a report is retained and its status is OK.
C3_PairUpdatedAtomically == GateMatchesReport

\* C4: the gate is false initially; it becomes true only by the gate write of
\* a run_diagnostics call whose report is OK, no other step changes it, and
\* is_preflight_passed returns the gate as it stands.
C4_GateFalseUntilOkRun ==
    /\ ~preflight_passed
    /\ [][/\ preflight_passed' # preflight_passed =>
                \E t \in Tasks :
                    /\ rd_pc[t] = "store_gate" /\ rd_pc'[t] = "store_report"
                    /\ preflight_passed' = (Unwrap(rd_result[t]).status = "OK")
          /\ event'.op = "is_preflight_passed" =>
                /\ event'.res = Some(Ok(preflight_passed))
                /\ UNCHANGED diag_vars]_vars

\* C4 witness: is_preflight_passed has returned true.
C4_Witness == Returned("is_preflight_passed") /\ Unwrap(event.res).val = TRUE

IsPreflightError(res) ==
    IsSome(res) /\ ~Unwrap(res).ok /\ Unwrap(res).val \in PreflightErrors

\* C5: with the gate false, evaluate and mutate_workflow return the preflight
\* error in the same step, send no request, start no diagnostics run and
\* leave the gate and the retained report as they were.
C5_GatedCommandsFailFast ==
    [][(~preflight_passed /\ event'.op \in {"evaluate", "mutate_workflow"}) =>
            /\ IsPreflightError(event'.res)
            /\ event'.requests = {}
            /\ UNCHANGED diag_vars]_vars

\* C5 witness: evaluate has been refused while a report of a failed run is
\* retained.
C5_Witness ==
    /\ Returned("evaluate")
    /\ IsPreflightError(event.res)
    /\ ~preflight_passed
    /\ IsSome(diagnostics)

BackendCommands ==
    {"evaluate", "mutate_workflow", "get_bandit_status", "create_memory_snapshot",
     "get_workflow_dag", "get_telemetry_metrics"}

\* C6 (as claimed): with the gate false, none of the six backend commands
\* sends a request and each returns the preflight error.
C6_AllBackendCommandsGated ==
    [][(~preflight_passed /\ event'.op \in BackendCommands) =>
            /\ IsPreflightError(event'.res)
            /\ event'.requests = {}]_vars

\* --------------------------------------------- claims: the window registry

\* The step just taken is a create_office_window that returned an identifier.
CreateReturnedOk(e) == e.op = "create_office_window" /\ IsSome(e.res) /\ Unwrap(e.res).ok

CountOf(offices, record) == Cardinality({i \in DOMAIN offices : offices[i] = record})

\* C7: a create_office_window(role, consent, ttl) that succeeds adds one
\* record under the identifier it returns and changes no other: the record
\* has that identifier, the role and consent asked for, the role's default
\* size, no position, the TTL given or 3600; every list get_active_offices
\* can return right afterwards holds it exactly once.
C7_CreateAddsOneRecord ==
    [][CreateReturnedOk(event') =>
            LET window_id == Unwrap(event'.res).val
                args == Unwrap(event'.arg)
            IN /\ window_id \notin DOMAIN windows
               /\ DOMAIN windows' = DOMAIN windows \cup {window_id}
               /\ \A k \in DOMAIN windows : windows'[k] = windows[k]
               /\ windows'[window_id].id = window_id
               /\ windows'[window_id].office_type = args.office_type
               /\ windows'[window_id].memory_consent = args.memory_consent
               /\ windows'[window_id].size = get_default_size(args.office_type)
               /\ windows'[window_id].position = None
               /\ windows'[window_id].shared_memory_ttl =
                      (IF args.shared_memory_ttl = None THEN 3600
                       ELSE Unwrap(args.shared_memory_ttl))
               /\ \A offices \in get_active_offices(windows') :
                      CountOf(offices, windows'[window_id]) = 1]_vars

\* C7 witness: a create with a TTL of its own has returned while another
\* window, created with the default TTL, is in the registry.
C7_Witness ==
    /\ CreateReturnedOk(event)
    /\ Unwrap(event.arg).shared_memory_ttl = Some(60)
    /\ Unwrap(event.res).val \in DOMAIN windows
    /\ \E k \in DOMAIN windows :
            k # Unwrap(event.res).val /\ windows[k].shared_memory_ttl = 3600

\* C8: the identifier a create_office_window returns has been returned by no
\* earlier create, whether that window is still open or has been closed.
C8_IdentifierNeverReused ==
    [][CreateReturnedOk(event') => Unwrap(event'.res).val \notin issued]_vars

\* C8 witness: a create has returned after a window created earlier was
\* closed.
C8_Witness ==
    /\ CreateReturnedOk(event)
    /\ \E k \in issued :
            k # Unwrap(event.res).val /\ k \notin DOMAIN windows /\ k \notin tk_windows

\* C9: when the toolkit fails to build the window, create_office_window
\* returns an error in that step and the registry is as before: no record
\* inserted, none changed, no insert left pending.
C9_FailedBuildLeavesRegistry ==
    [][("toolkit:build:failed" \in event'.requests) =>
            /\ event'.op = "create_office_window"
            /\ IsSome(event'.res) /\ ~Unwrap(event'.res).ok
            /\ windows' = windows
            /\ w_pc' = w_pc /\ w_local' = w_local]_vars

\* C9 witness: a build has failed with a window in the registry.
C9_Witness ==
    /\ "toolkit:build:failed" \in event.requests
    /\ DOMAIN windows # {}

\* C10 (as claimed): close_office_window of an identifier that is not in the
\* registry returns the error "Window not found" and leaves the registry as
\* it was.
C10_CloseUnknownIsNotFound ==
    [][(event'.op = "close_office_window" /\ Unwrap(event'.arg) \notin DOMAIN windows) =>
            /\ event'.res = Some(Err("Window not found"))
            /\ windows' = windows]_vars

\* C11 (as claimed): close_office_window destroys the toolkit window before it
\* removes the record, so when the toolkit fails to destroy the window the
\* call returns an error and the record is still in the registry: no step of
\* a close leaves a live toolkit window without the record it had.
C11_DestroyThenRemove ==
    [][event'.op = "close_office_window" =>
            LET window_id == Unwrap(event'.arg)
            IN /\ ("toolkit:close:failed" \in event'.requests) =>
                      /\ IsSome(event'.res) /\ ~Unwrap(event'.res).ok
                      /\ windows' = windows
               /\ (window_id \in DOMAIN windows /\ window_id \in tk_windows') =>
                      window_id \in DOMAIN windows']_vars

\* ------------------------------------------------- claims: message routing

\* Caller c's send_to_office or broadcast_to_all returns in this step.
EmitLoopReturns(c, op) ==
    /\ w_pc[c] = "emit_loop" /\ w_pc'[c] = "idle"
    /\ Unwrap(w_local[c]).op = op

\* The emit calls of c's whole call, those of the returning step included.
AllEmits(c) == Unwrap(w_local[c]).emitted \o event'.emits

\* How many of the emit calls delivered this payload to window k.
Deliveries(emits, k, name, payload) ==
    Cardinality({i \in DOMAIN emits :
        emits[i] = Emit(k, name, payload, TRUE)})

\* C12 (as claimed): a send_to_office(R, payload) in which no emit fails has
\* emitted the payload exactly once to each window of the registry whose role
\* is R, to no window of another role and to nothing outside the registry;
\* with no window of role R it returns success with no delivery.
C12_SendReachesEachOfRole ==
    [][\A c \in Callers :
        (EmitLoopReturns(c, "send_to_office") /\ event'.res = Some(Ok("unit"))) =>
            LET local == Unwrap(w_local[c])
            IN /\ \A i \in DOMAIN AllEmits(c) : AllEmits(c)[i].to \in DOMAIN windows
               /\ \A k \in DOMAIN windows :
                    Deliveries(AllEmits(c), k, "office_message", local.arg.message) =
                        (IF windows[k].office_type = local.arg.office_type THEN 1 ELSE 0)
               /\ Len(AllEmits(c)) =
                    Cardinality({k \in DOMAIN windows :
                        windows[k].office_type = local.arg.office_type})]_vars

\* The entry of window k is one the loop of c's call emits to: broadcast_to_all
\* takes every entry, send_to_office those of its role.
Selected(c, k) ==
    LET local == Unwrap(w_local[c])
    IN local.filter = None \/ windows[k].office_type = Unwrap(local.filter)

\* C13 (as claimed): when send_to_office or broadcast_to_all returns, every
\* recipient (a selected record whose window the toolkit holds) has been
\* emitted to, also those after a recipient whose emit failed, and the call
\* returns an error iff at least one emit failed.
C13_FailedEmitDoesNotAbort ==
    [][\A c \in Callers :
        (\E op \in {"send_to_office", "broadcast_to_all"} : EmitLoopReturns(c, op)) =>
            /\ \A k \in DOMAIN windows :
                    (Selected(c, k) /\ k \in tk_windows) =>
                        \E i \in DOMAIN AllEmits(c) : AllEmits(c)[i].to = k
            /\ ~Unwrap(event'.res).ok <=>
                    \E i \in DOMAIN AllEmits(c) : ~AllEmits(c)[i].ok]_vars

\* C14: however sends, broadcasts, creates and closes interleave, every emit
\* goes to a window whose identifier is in the registry at that moment, and
\* no close takes effect while a send or broadcast is under way (it holds
\* the read guard from its first step to its return), so that a close can
\* neither take a recipient away nor make the call return an error.
C14_NoEmitToClosedWindow ==
    [][/\ \A i \in DOMAIN event'.emits :
            /\ event'.emits[i].to \in DOMAIN windows
            /\ event'.emits[i].to \in DOMAIN windows'
       /\ (\E c \in Callers : w_pc[c] = "emit_loop") =>
            /\ windows' = windows
            /\ tk_windows \subseteq tk_windows'
            /\ event'.op # "close_office_window"]_vars

\* C14 witness: a broadcast has emitted to one window and has another still
\* to visit; no close_office_window of a registered window can take its step
\* in that state.
C14_Witness ==
    \E c \in Callers :
        /\ w_pc[c] = "emit_loop"
        /\ Unwrap(w_local[c]).op = "broadcast_to_all"
        /\ Len(Unwrap(w_local[c]).emitted) = 1
        /\ Len(Unwrap(w_local[c]).iter) = 1
        /\ Unwrap(w_local[c]).iter[1].id \in tk_windows
        /\ \A k \in DOMAIN windows : ~ENABLED CloseOfficeWindow(k, TRUE)

\* ------------------------------------------------------- claims: workflows

\* The run of caller c returns in this step.
WorkflowReturns(c) == IsSome(wf[c]) /\ wf'[c] = None

\* The trace of a run whose steps were taken in list order, one at a time:
\* start 1, end 1, start 2, end 2, ..., the last entry possibly a failure.
InListOrder(trace) ==
    \A i \in DOMAIN trace :
        IF i % 2 = 1
        THEN trace[i] = <<"start", (i + 1) \div 2>>
        ELSE \/ trace[i] = <<"end", i \div 2>>
             \/ trace[i] = <<"failed", i \div 2>> /\ i = Len(trace)

\* C15: a run stops at the first step whose call returns an error: from then
\* on it starts no step and changes nothing, it returns the error of that
\* step and no run identifier, and the windows its earlier OpenOffice steps
\* opened are still in the registry; Ok(workflow_id) is returned only after
\* every step of the definition has ended without error.
C15_StopsAtFirstFailure ==
    [][\A c \in Callers : IsSome(wf[c]) =>
        LET run == Unwrap(wf[c])
        IN /\ (IsSome(wf'[c]) /\ IsSome(Unwrap(wf'[c]).failed) /\ run.failed = None) =>
                /\ event'.res = Some(Err(Unwrap(Unwrap(wf'[c]).failed)))
                /\ Unwrap(wf'[c]).pc = run.pc
                /\ Unwrap(wf'[c]).trace[Len(Unwrap(wf'[c]).trace)] = <<"failed", run.pc>>
                /\ run.opened \subseteq DOMAIN windows'
           /\ IsSome(run.failed) =>
                /\ WorkflowReturns(c)
                /\ event'.op = "orchestrate_workflow"
                /\ event'.res = Some(Err(Unwrap(run.failed)))
                /\ windows' = windows /\ tk_windows' = tk_windows
                /\ run.opened \subseteq DOMAIN windows'
           /\ (WorkflowReturns(c) /\ Unwrap(event'.res).ok) =>
                /\ event'.res = Some(Ok("workflow_id"))
                /\ run.failed = None
                /\ Len(run.trace) = 2 * Len(run.steps)
                /\ \A i \in DOMAIN run.steps : run.trace[2 * i] = <<"end", i>>]_vars

\* C15 witness: the delivery of step 2 failed and the run has returned that
\* error; the window step 1 opened is the one entry of the registry.
C15_Witness ==
    /\ event.op = "orchestrate_workflow"
    /\ event.res = Some(Err("Failed to send message"))
    /\ DOMAIN windows = {1}
    /\ tk_windows = {1}
    /\ issued = {1}

\* The steps of the run that have ended without error.
Ended(run) == {i \in DOMAIN run.trace : run.trace[i][1] = "end"}

\* C16: the steps of a run are taken in list order, one at a time: step N+1
\* is started only after step N has ended, a step is started while no call
\* of an earlier step is under way, and a run that returns its identifier
\* has started and ended each step of the definition once, none passed over.
C16_StepsInListOrder ==
    \A c \in Callers : IsSome(wf[c]) =>
        LET run == Unwrap(wf[c])
        IN /\ InListOrder(run.trace)
           /\ run.pc = Cardinality(Ended(run)) + 1
           /\ run.pc <= Len(run.steps) + 1
           /\ w_pc[c] # "idle" =>
                /\ run.trace # <<>>
                /\ run.trace[Len(run.trace)] = <<"start", run.pc>>
           /\ (run.failed = None /\ run.pc > Len(run.steps)) =>
                /\ w_pc[c] = "idle"
                /\ Len(run.trace) = 2 * Len(run.steps)
           /\ Cardinality(run.opened) =
                Cardinality({i \in Ended(run) : run.steps[i \div 2].action = "OpenOffice"})

\* C16 witness: a run of three steps, a wait among them, is about to return
\* its identifier.
C16_Witness ==
    \E c \in Callers :
        /\ IsSome(wf[c])
        /\ Unwrap(wf[c]).failed = None
        /\ Len(Unwrap(wf[c]).steps) = 3
        /\ Unwrap(wf[c]).pc = 4
        /\ \E i \in 1..3 : Unwrap(wf[c]).steps[i].action = "WaitForResponse"
        /\ \E i \in 1..3 : Unwrap(wf[c]).steps[i].action = "SendMessage"

\* The definition is an open, a send to the opened role and a close.
OpenSendClose(steps) ==
    /\ Len(steps) = 3
    /\ steps[1].action = "OpenOffice"
    /\ steps[2].action = "SendMessage" /\ steps[2].office_type = steps[1].office_type
    /\ steps[3].action = "CloseOffice"

C18_ConsentStoredAndNotified ==
    [][event'.op = "update_memory_consent" =>
        LET window_id == Unwrap(event'.arg).window_id
            consent == Unwrap(event'.arg).consent
        IN IF window_id \in DOMAIN windows
           THEN /\ windows' = [windows EXCEPT ![window_id].memory_consent = consent]
                /\ Len(event'.emits) = 1
                /\ event'.emits[1].to = window_id
                /\ event'.emits[1].name = "memory_consent_updated"
                /\ event'.emits[1].payload = consent
                /\ event'.res = (IF event'.emits[1].ok THEN Some(Ok("unit"))
                                 ELSE Some(Err("Failed to update consent")))
           ELSE /\ event'.res = Some(Err("Window not found"))
                /\ event'.emits = <<>>
                /\ windows' = windows]_vars

UpdateCommands == {"update_memory_consent", "update_memory_ttl"}

\* The registry differs from `map` at most in the consent and the TTL of the
\* record of window_id.
UpdatedAt(map, window_id) ==
    /\ DOMAIN windows' = DOMAIN map
    /\ \A k \in DOMAIN map \ {window_id} : windows'[k] = map[k]
    /\ windows'[window_id] =
            [map[window_id] EXCEPT !.memory_consent = windows'[window_id].memory_consent,
                                   !.shared_memory_ttl = windows'[window_id].shared_memory_ttl]

\* C19: each registry command takes effect in one step on the registry as it
\* stands, so that overlapping commands give what one of their orders gives.
\* A create that returns adds its record and leaves every other as it was,
\* also the record of a create that overlapped it; a record enters the
\* registry only by the create that first returns its identifier, so that a
\* closed identifier never comes back; a close removes its record; an update
\* of an identifier that has a record changes that record alone and takes
\* nothing out, and an update of one that has none (a close came first)
\* returns "Window not found" and changes nothing.
C19_RegistryCommandsSerialized ==
    [][/\ CreateReturnedOk(event') =>
            /\ Unwrap(event'.res).val \notin DOMAIN windows
            /\ DOMAIN windows' = DOMAIN windows \cup {Unwrap(event'.res).val}
            /\ \A k \in DOMAIN windows : windows'[k] = windows[k]
       /\ \A k \in DOMAIN windows' \ DOMAIN windows :
            /\ CreateReturnedOk(event') /\ Unwrap(event'.res).val = k
            /\ k \notin issued
       /\ event'.op = "close_office_window" =>
            windows' = remove(windows, Unwrap(event'.arg))
       /\ event'.op \in UpdateCommands =>
            LET window_id == Unwrap(event'.arg).window_id
            IN IF window_id \in DOMAIN windows
               THEN /\ UpdatedAt(windows, window_id)
                    /\ event'.res # Some(Err("Window not found"))
               ELSE /\ windows' = windows
                    /\ event'.res = Some(Err("Window not found"))]_vars

\* C19 witness: a window was created and closed, and an update of it, made
\* while the create of another caller was under way, has returned "Window
\* not found".
C19_Witness ==
    /\ event.op \in UpdateCommands
    /\ event.res = Some(Err("Window not found"))
    /\ Unwrap(event.arg).window_id \in issued
    /\ Unwrap(event.arg).window_id \notin DOMAIN windows
    /\ \E c \in Callers : w_pc[c] = "create_insert"

\* ------------------------------------------------ claims: the workflow wait

\* Caller o can take the next step of whatever command it issues or has
\* under way, unless that step needs the write guard while a read guard is
\* out.
CanProceed(o) ==
    /\ w_pc[o] = "idle" =>
            /\ \A message \in Payloads :
                    /\ ENABLED SendToOfficeStart(o, "Orchestrator", message)
                    /\ ENABLED BroadcastToAllStart(o, message)
            /\ NewUuids # {} => \A args \in RouterArgs : ENABLED CreateBuild(o, args, TRUE)
    /\ w_pc[o] = "emit_loop" => ENABLED EmitNext(o, TRUE) \/ ENABLED EmitDone(o)
    /\ (w_pc[o] = "create_insert" /\ rw_readers = {}) => ENABLED CreateInsert(o)

\* C20: a run suspended in a WaitForResponse step holds no guard of the
\* registry: whatever another caller issues or has under way then (create,
\* close, list, send, broadcast) can take its next step, a writer held up
\* only by the read guard of a send or broadcast that is in its loop.
C20_WaitHoldsNoGuard ==
    \A c \in Callers : (IsSome(wf[c]) /\ w_pc[c] = "sleep") =>
        /\ c \notin rw_readers
        /\ \A r \in rw_readers : w_pc[r] = "emit_loop"
        /\ ENABLED GetActiveOffices
        /\ rw_readers = {} => \A k \in uuid_drawn : ENABLED CloseOfficeWindow(k, TRUE)
        /\ \A o \in Others : CanProceed(o)

\* C20 witness: the first run is asleep in its wait, and a broadcast another
\* caller began during that wait has visited the window the run opened and
\* returned.
C20_Witness ==
    /\ IsSome(wf[Executor]) /\ w_pc[Executor] = "sleep"
    /\ uuid_drawn = {1}
    /\ 1 \in DOMAIN windows /\ 1 \in tk_windows
    /\ event.op = "broadcast_to_all"
    /\ event.res = Some(Ok("unit"))

\* ------------------------------------------- claims: the order of the probes

\* The outputs of a join as a set: the order of completion forgotten.
Outputs(order) == {order[i] : i \in DOMAIN order}

\* The output of probe p among them.
OutputOf(outputs, p) == CHOOSE r \in {x[2] : x \in {y \in outputs : y[1] = p}} : TRUE

\* C21: the report run_diagnostics builds from a join depends on the five
\* outputs alone, not on the order in which the probes completed: its checks
\* are the five outputs under their probes' names, its status is the one
\* those five outputs give.
C21_CompletionOrderIrrelevant ==
    (rd_pc[1] = "store_gate" /\ Len(join_order) = Cardinality(ProbeNames)) =>
        LET outputs == Outputs(join_order)
            checks == [p \in ProbeNames |-> OutputOf(outputs, p)]
            report == Unwrap(rd_result[1])
        IN /\ DOMAIN report.checks = ProbeNames
           /\ report.checks = checks
           /\ report.status = OverallStatus(checks)

\* C21 witness: a report built from a join in which the backend probe, the
\* last one launched, completed first and failed, and the RAM probe, the
\* first one launched, completed last.
C21_Witness ==
    /\ rd_pc[1] = "store_gate"
    /\ Len(join_order) = Cardinality(ProbeNames)
    /\ join_order[1][1] = "backend" /\ ~join_order[1][2].passed
    /\ join_order[2][1] = "ollama" /\ ~join_order[2][2].passed
    /\ join_order[5][1] = "ram"
    /\ Unwrap(rd_result[1]).status = "ERROR"

\* ------------------------------------------------ claims: the role of a record

\* C22: no step of an update of consent or TTL, a send, a broadcast, a create
\* or close of another window or a workflow run changes the role or the
\* identifier of a record that is in the registry and stays in it.
C22_RoleNeverChanges ==
    [][\A k \in DOMAIN windows \cap DOMAIN windows' :
            /\ windows'[k].office_type = windows[k].office_type
            /\ windows'[k].id = windows[k].id]_vars

\* C22 witness: a record of role Security whose consent and TTL have both
\* been updated since its creation, with a younger record beside it, is sent
\* a message by a workflow run.
C22_Witness ==
    \E k \in DOMAIN windows :
        /\ windows[k].office_type = "Security"
        /\ ~windows[k].memory_consent
        /\ windows[k].shared_memory_ttl = 60
        /\ \E j \in DOMAIN windows : j > k
        /\ IsSome(wf[Executor])
        /\ event.op = "send_to_office"
        /\ event.emits = <<Emit(k, "office_message", "m", TRUE)>>

\* ------------------------------------------------ claims: the severities

\* The severity of the check of probe p goes with its outcome.
SeverityRule(p, check) ==
    /\ (check.severity = "info") <=> check.passed
    /\ ~check.passed => check.severity \in {"error", "warning"}
    /\ check.severity = "warning" => p = "backend"

SeveritiesRule(checks) ==
    /\ \A p \in DOMAIN checks : SeverityRule(p, checks[p])
    /\ has_errors(checks) <=>
            \E p \in DOMAIN checks : ~checks[p].passed /\ checks[p].severity = "error"

\* C23: every check a probe produces has severity info iff it passed; a
\* failed check has severity error, or warning if it is the backend's; so in
\* every report "some check has severity error" and "some failed check has
\* severity error" say the same.
C23_SeverityInfoIffPassed ==
    /\ SeveritiesRule(join_slots)
    /\ \A t \in Tasks : IsSome(rd_result[t]) => SeveritiesRule(Unwrap(rd_result[t]).checks)
    /\ IsSome(diagnostics) => SeveritiesRule(Unwrap(diagnostics).checks)

\* C23 witness: a retained report in which the RAM check failed with severity
\* error, the backend check failed with severity warning and the others
\* passed with severity info.
C23_Witness ==
    /\ IsSome(diagnostics)
    /\ LET checks == Unwrap(diagnostics).checks
       IN /\ ~checks["ram"].passed /\ checks["ram"].severity = "error"
          /\ ~checks["backend"].passed /\ checks["backend"].severity = "warning"
          /\ \A p \in {"disk", "ollama", "models"} :
                checks[p].passed /\ checks[p].severity = "info"

\* -------------------------------------------------- claims: ghost entries

\* C24 (as claimed): in every state reached through creates and closes, with
\* toolkit calls that may fail, every record of the registry is stored under
\* its own identifier and the toolkit holds a window of that label.
C24_NoGhostEntry ==
    \A k \in DOMAIN windows : windows[k].id = k /\ k \in tk_windows

\* ---------------------------------------------------- claims: the lock

\* Caller c has something under way: a command, a guard of `windows`, a run.
Busy(c) == w_pc[c] # "idle" \/ c \in rw_readers \/ IsSome(wf[c])

\* C25: under fair scheduling, with toolkit calls that return, whatever a
\* caller has under way comes to its end with no guard of `windows` left in
\* the caller's hands: a create that waits for the write guard, a send or a
\* broadcast in its loop, a workflow run with its open, wait, send and close
\* steps.
C25_EveryCommandCompletes == \A c \in Callers : Busy(c) ~> ~Busy(c)

\* C25 witness: in the middle of a workflow run a create waits for the write
\* guard while the send or broadcast of another caller, in its loop, holds a
\* read guard.
C25_Witness ==
    \E c, r \in Callers :
        /\ w_pc[c] = "create_insert"
        /\ r \in rw_readers /\ w_pc[r] = "emit_loop"
        /\ ~ENABLED CreateInsert(c)
        /\ UnderWay

=============================================================================
